---------------------------- MODULE Spec2Model ----------------------------
(***************************************************************************)
(* Model of the file-management commands of the markdown shell             *)
(* (src/app/src-tauri/src/file_manager.rs and lib.rs).                     *)
(*                                                                         *)
(* Strings that the code inspects character by character (paths, names)    *)
(* are sequences of one-character strings; file contents, which the code   *)
(* only copies, are TLA+ strings.  Results are records                     *)
(* [ok |-> TRUE, val |-> v] (Ok(v)) or [ok |-> FALSE, err |-> e] (Err(e)). *)
(*                                                                         *)
(* There is one specification per group of commands:                       *)
(*   SpecList    list_files                                                *)
(*   SpecInfo    get_file_info                                             *)
(*   SpecFs      read_file, write_file (both modules), create_new_file     *)
(*   SpecFolder  get_default_md_folder, set_default_md_folder, run by      *)
(*               concurrent threads while the file system changes          *)
(*   SpecDialog  open_file_dialog, open_folder_dialog and the dialog's     *)
(*               callback                                                  *)
(***************************************************************************)
EXTENDS Integers, Sequences, FiniteSets, TLC

VARIABLES
  \* list_files: the directory named by the argument and the call's result
  listFolder,     \* the folder_path argument
  dirOpenable,    \* whether fs::read_dir(folder_path) succeeds
  dirEntries,     \* what the read_dir iterator yields, in the OS's order
  listRet         \* None before the call, then the call's result

VARIABLES
  \* the file system the other commands act on
  tree,           \* location -> node, for every location that exists
  \* get_file_info: the last call
  infoArg,        \* its file_path argument
  infoRet         \* its result

VARIABLES
  \* read_file, write_file, create_new_file
  now,            \* the local time: [sec |-> second of the day]
  last,           \* the last command run: its name, arguments and result
  written         \* history: location -> content of the last successful
                  \* write to the file there

VARIABLES
  \* get_default_md_folder, set_default_md_folder
  default_md_folder,  \* the String inside the Mutex: [ptr |-> .., len |-> ..]
  mutex,              \* the thread that holds the Mutex, or 0
  home,               \* what dirs::home_dir() returns: None or Some(path)
  pc,                 \* thread -> where it is in set_default_md_folder
  call,               \* thread -> its current or last call and its result
  lastSet,            \* history: the path of the last set that returned Ok
  storedEver,         \* history: the paths of all sets that returned Ok
  calls,              \* the number of calls made
  fsChanges           \* the number of changes others made to the file system

VARIABLES
  \* open_file_dialog, open_folder_dialog; each is indexed by the command
  dpc,            \* "idle", "waiting" (in rx.recv()) or "returned"
  chan,           \* the messages sent on the channel and not yet received
  senders,        \* the number of live handles on the channel's Sender
  cb,             \* the callback: "none", "pending", "fired" or "dropped"
  sel,            \* history: what the dialog passed to the callback
  dret,           \* the command's result
  returns,        \* history: how often the current call has returned
  dialogs         \* the number of dialogs opened

listVars == <<listFolder, dirOpenable, dirEntries, listRet>>
dialogVars == <<dpc, chan, senders, cb, sel, dret, returns, dialogs>>
infoVars == <<infoArg, infoRet>>
fsVars == <<now, last, written>>
folderVars ==
  <<default_md_folder, mutex, home, pc, call, lastSet, storedEver, calls,
    fsChanges>>
vars == <<listVars, tree, infoVars, fsVars, folderVars, dialogVars>>

None == [none |-> TRUE]
Some(v) == [some |-> v]
Ok(v) == [ok |-> TRUE, val |-> v]
Err(e) == [ok |-> FALSE, err |-> e]

----------------------------------------------------------------------------
(* Strings                                                                 *)

\* Two bytes that are not valid UTF-8, and the replacement character that
\* to_string_lossy puts in their place.
BadByte1 == "<FE>"
BadByte2 == "<FF>"
Replacement == "<U+FFFD>"

\* The code point of each character the model's names are made of (the order
\* of Rust's str comparison: byte-wise on UTF-8, which is code-point order).
CodePoint(c) ==
  CASE c = "." -> 46
    [] c = "/" -> 47
    [] c = "B" -> 66
    [] c = "a" -> 97
    [] c = "b" -> 98
    [] c = Replacement -> 65533
    [] OTHER -> 0

\* OsStr::to_string_lossy: every invalid byte becomes U+FFFD.
to_string_lossy(s) ==
  [i \in 1..Len(s) |->
     IF s[i] \in {BadByte1, BadByte2} THEN Replacement ELSE s[i]]

\* str::cmp: lexicographic, character by character, the shorter string first
\* when one is a prefix of the other.
RECURSIVE cmp(_, _)
cmp(a, b) ==
  IF a = <<>> THEN (IF b = <<>> THEN "Equal" ELSE "Less")
  ELSE IF b = <<>> THEN "Greater"
  ELSE IF CodePoint(Head(a)) < CodePoint(Head(b)) THEN "Less"
  ELSE IF CodePoint(Head(a)) > CodePoint(Head(b)) THEN "Greater"
  ELSE cmp(Tail(a), Tail(b))

\* Path::join / PathBuf::push on Unix: an absolute argument replaces the
\* path; otherwise a separator is added unless the path is empty or already
\* ends in one.
join(base, p) ==
  IF p # <<>> /\ p[1] = "/" THEN p
  ELSE IF base = <<>> THEN p
  ELSE IF base[Len(base)] = "/" THEN base \o p
  ELSE base \o <<"/">> \o p

----------------------------------------------------------------------------
(* list_files                                                              *)

MaxChildren == 2

Names ==
  { <<"B">>, <<"a">>, <<"a", "B">>, <<"a", "b">>,
    <<BadByte1>>, <<BadByte2>> }

Folders == { <<"/", "d">>, <<"/", "d", "/">> }

\* What the OS holds for one child: its name, its metadata, and whether
\* reading the directory entry or its metadata fails.
ChildKinds ==
  { [is_dir |-> TRUE, size |-> 0],
    [is_dir |-> FALSE, size |-> 0],
    [is_dir |-> FALSE, size |-> 3] }

Children ==
  { [name |-> n, is_dir |-> k.is_dir, size |-> k.size, read |-> r] :
      n \in Names, k \in ChildKinds, r \in {"ok", "entry_err", "meta_err"} }

DistinctNames(s) ==
  \A i, j \in 1..Len(s) : i # j => s[i].name # s[j].name

Listings ==
  { s \in UNION { [1..n -> Children] : n \in 0..MaxChildren } :
      DistinctNames(s) }

\* The FileOperation pushed for one readable entry (lines 143-148).
FileOperation(folder, c) ==
  [ path   |-> to_string_lossy(join(folder, c.name)),
    name   |-> to_string_lossy(c.name),
    size   |-> c.size,
    is_dir |-> c.is_dir ]

\* A faulty loop: it stops at the first entry that cannot be read.
RECURSIVE CollectMutant(_, _)
CollectMutant(folder, entries) ==
  IF entries = <<>> \/ Head(entries).read # "ok" THEN <<>>
  ELSE <<FileOperation(folder, Head(entries))>>
         \o CollectMutant(folder, Tail(entries))

\* The loop of lines 139-151: entries whose Result is Err, or whose
\* metadata() is Err, are skipped.
RECURSIVE Collect(_, _)
Collect(folder, entries) ==
  IF entries = <<>> THEN <<>>
  ELSE IF Head(entries).read = "ok"
    THEN <<FileOperation(folder, Head(entries))>>
           \o Collect(folder, Tail(entries))
    ELSE Collect(folder, Tail(entries))

\* files.sort_by(|a, b| a.name.cmp(&b.name)): a stable sort.  Insert puts e
\* after every element that does not compare Greater than it.
RECURSIVE Insert(_, _)
Insert(sorted, e) ==
  IF sorted = <<>> THEN <<e>>
  ELSE IF cmp(Head(sorted).name, e.name) = "Greater" THEN <<e>> \o sorted
  ELSE <<Head(sorted)>> \o Insert(Tail(sorted), e)

RECURSIVE InsertionSort(_, _)
InsertionSort(done, rest) ==
  IF rest = <<>> THEN done
  ELSE InsertionSort(Insert(done, Head(rest)), Tail(rest))

\* A faulty sort: the entries stay in the order read_dir gave them.
sort_by_mutant(files) == files

sort_by(files) == InsertionSort(<<>>, files)

IdleList ==
  /\ listFolder = <<>>
  /\ dirOpenable = FALSE
  /\ dirEntries = <<>>
  /\ listRet = None

IdleFolder ==
  /\ default_md_folder = [ptr |-> <<>>, len |-> 0]
  /\ mutex = 0
  /\ home = None
  /\ pc = <<>>
  /\ call = <<>>
  /\ lastSet = None
  /\ storedEver = {}
  /\ calls = 0
  /\ fsChanges = 0

IdleDialog ==
  /\ dpc = <<>> /\ chan = <<>> /\ senders = <<>> /\ cb = <<>>
  /\ sel = <<>> /\ dret = <<>> /\ returns = <<>> /\ dialogs = 0

InitList ==
  /\ tree = <<>>
  /\ infoArg = <<>> /\ infoRet = None
  /\ now = None /\ last = None /\ written = <<>>
  /\ IdleFolder
  /\ IdleDialog
  /\ listFolder \in Folders
  /\ dirOpenable \in BOOLEAN
  /\ dirEntries \in Listings
  /\ (~dirOpenable => dirEntries = <<>>)
  /\ listRet = None

\* list_files(folder_path), lines 133-157.
list_files ==
  /\ listRet = None
  /\ listRet' =
       IF ~dirOpenable THEN Err("Error reading folder")
       ELSE Ok(sort_by(Collect(listFolder, dirEntries)))
  /\ UNCHANGED <<listFolder, dirOpenable, dirEntries, tree, infoVars, fsVars,
                 folderVars, dialogVars>>

NextList == list_files

SpecList == InitList /\ [][NextList]_vars

\* a <= b in the lexicographic order on code points, stated directly: a is a
\* prefix of b, or at the first place they differ a's character is smaller.
LexLeq(a, b) ==
  \/ /\ Len(a) <= Len(b)
     /\ \A i \in 1..Len(a) : a[i] = b[i]
  \/ \E k \in 1..Len(a) :
       /\ k <= Len(b)
       /\ \A i \in 1..(k - 1) : a[i] = b[i]
       /\ CodePoint(a[k]) < CodePoint(b[k])

\* C1: every successful list_files result is sorted by name: each entry's
\* name is <= the next entry's name in the case-sensitive lexicographic
\* order.
C1_Sorted ==
  (listRet # None /\ listRet.ok) =>
     \A i \in 1..(Len(listRet.val) - 1) :
       LexLeq(listRet.val[i].name, listRet.val[i + 1].name)

\* A listing was returned for a directory the OS enumerates out of order,
\* with an upper-case name that sorts before a lower-case one.
C1_Witness ==
  /\ listRet # None /\ listRet.ok
  /\ Len(listRet.val) = 2
  /\ Len(dirEntries) = 2
  /\ dirEntries[1].name = <<"a">>
  /\ dirEntries[2].name = <<"B">>
  /\ listRet.val[1].name = <<"B">>

ReadableIdx == { i \in 1..Len(dirEntries) : dirEntries[i].read = "ok" }

\* C2: list_files fails exactly when the directory cannot be opened; when it
\* can, the result holds exactly one entry per readable child (same name,
\* size and kind) and nothing else.
C2_Complete ==
  listRet # None =>
    /\ listRet.ok <=> dirOpenable
    /\ listRet.ok =>
         /\ Len(listRet.val) = Cardinality(ReadableIdx)
         /\ \E f \in [ReadableIdx -> 1..Len(listRet.val)] :
              /\ \A i, j \in ReadableIdx : i # j => f[i] # f[j]
              /\ \A i \in ReadableIdx :
                   listRet.val[f[i]] = FileOperation(listFolder, dirEntries[i])

\* A listing succeeded although one child was unreadable, and returned the
\* other one.
C2_Witness ==
  /\ listRet # None /\ listRet.ok
  /\ Len(dirEntries) = 2
  /\ dirEntries[1].read = "meta_err"
  /\ dirEntries[2].read = "ok"
  /\ Len(listRet.val) = 1

----------------------------------------------------------------------------
(* The file system                                                         *)
(*                                                                         *)
(* A location is the sequence of names from the root to an object; tree    *)
(* maps every existing location to its node.  A node is a directory or a   *)
(* regular file with its bytes (data) and whether they are valid UTF-8.    *)

Fail == [fail |-> TRUE]

DirNode == [kind |-> "dir", data |-> "", utf8 |-> TRUE]
FileNode(data, utf8) == [kind |-> "file", data |-> data, utf8 |-> utf8]

\* The working directory of the process: /w.
Cwd == << <<"w">> >>

\* The pieces of s between separators, empty pieces included.
RECURSIVE SplitAcc(_, _, _)
SplitAcc(s, acc, cur) ==
  IF s = <<>> THEN Append(acc, cur)
  ELSE IF Head(s) = "/" THEN SplitAcc(Tail(s), Append(acc, cur), <<>>)
  ELSE SplitAcc(Tail(s), acc, Append(cur, Head(s)))

Split(s) == SplitAcc(s, <<>>, <<>>)

IsNonEmpty(seg) == seg # <<>>

\* The path segments the OS walks: the non-empty pieces.
Segs(path) == SelectSeq(Split(path), IsNonEmpty)

Parent(loc) == IF loc = <<>> THEN <<>> ELSE SubSeq(loc, 1, Len(loc) - 1)

\* Path resolution by the OS, one segment at a time from cur: every segment
\* is looked up in a directory ("." stays, ".." goes up, the root is its own
\* parent).  The result is Some(location), which may not exist, or Fail.
RECURSIVE Walk(_, _, _)
Walk(t, cur, segs) ==
  IF segs = <<>> THEN Some(cur)
  ELSE IF cur \notin DOMAIN t \/ t[cur].kind # "dir" THEN Fail
  ELSE IF Head(segs) = <<".">> THEN Walk(t, cur, Tail(segs))
  ELSE IF Head(segs) = <<".", ".">> THEN Walk(t, Parent(cur), Tail(segs))
  ELSE Walk(t, Append(cur, Head(segs)), Tail(segs))

StartOf(path) == IF path[1] = "/" THEN <<>> ELSE Cwd

\* The existing object a path names, as Some(location), or Fail: the empty
\* path names nothing, and a path with a trailing separator names only a
\* directory.
Resolve(t, path) ==
  IF path = <<>> THEN Fail
  ELSE LET w == Walk(t, StartOf(path), Segs(path)) IN
    IF w = Fail THEN Fail
    ELSE IF w.some \notin DOMAIN t THEN Fail
    ELSE IF path[Len(path)] = "/" /\ t[w.some].kind # "dir" THEN Fail
    ELSE w

\* fs::metadata(path)
metadata(t, path) ==
  LET r == Resolve(t, path) IN
    IF r = Fail THEN Err("os error")
    ELSE Ok([ len    |-> Len(t[r.some].data),
              is_dir |-> t[r.some].kind = "dir" ])

----------------------------------------------------------------------------
(* Path::components and Path::file_name (std::path, Unix)                  *)

Component(seg) ==
  IF seg = <<".", ".">> THEN [t |-> "ParentDir"]
  ELSE [t |-> "Normal", name |-> seg]

IsKept(seg) == seg # <<>> /\ seg # <<".">>

\* RootDir for an absolute path, CurDir for a relative path that starts
\* with a "." segment; after that "." segments and empty segments vanish.
components(path) ==
  LET S == Split(path)
      lead == IF path # <<>> /\ path[1] = "/" THEN << [t |-> "RootDir"] >>
              ELSE IF S[1] = <<".">> THEN << [t |-> "CurDir"] >>
              ELSE <<>>
      kept == SelectSeq(S, IsKept)
  IN lead \o [i \in 1..Len(kept) |-> Component(kept[i])]

\* Path::file_name: the last component when it is a normal one.
file_name(path) ==
  LET C == components(path) IN
    IF C # <<>> /\ C[Len(C)].t = "Normal" THEN Some(C[Len(C)].name)
    ELSE None

----------------------------------------------------------------------------
(* get_file_info                                                           *)

MaxPathLen == 3

PathChars == {"/", ".", "a"}

InfoPaths == UNION { [1..n -> PathChars] : n \in 0..MaxPathLen }

Unknown == <<"u", "n", "k", "n", "o", "w", "n">>

\* The trees get_file_info is tried on: /w always exists (it is the working
\* directory); /a, /w/a and /w/a/a vary.
InfoTrees ==
  LET base == (<<>> :> DirNode) @@ (Cwd :> DirNode)
      A    == << <<"a">> >>
      WA   == << <<"w">>, <<"a">> >>
      WAA  == << <<"w">>, <<"a">>, <<"a">> >>
      rootA == { <<>>, A :> DirNode, A :> FileNode("xy", TRUE) }
      cwdA  == { <<>>, WA :> FileNode("", TRUE), WA :> DirNode,
                 (WA :> DirNode) @@ (WAA :> FileNode("xyz", TRUE)) }
  IN { base @@ r @@ c : r \in rootA, c \in cwdA }

\* A faulty get_file_info: a path without a file name is an error.
get_file_info_mutant(t, file_path) ==
  LET md == metadata(t, file_path) IN
    IF ~md.ok \/ file_name(file_path) = None
      THEN Err("Error getting file info")
      ELSE Ok([ path   |-> file_path,
                name   |-> to_string_lossy(file_name(file_path).some),
                size   |-> md.val.len,
                is_dir |-> md.val.is_dir ])

\* get_file_info(file_path), lines 161-176.
get_file_info(t, file_path) ==
  LET md == metadata(t, file_path) IN
    IF ~md.ok THEN Err("Error getting file info")
    ELSE Ok([ path   |-> file_path,
              name   |-> IF file_name(file_path) = None THEN Unknown
                         ELSE to_string_lossy(file_name(file_path).some),
              size   |-> md.val.len,
              is_dir |-> md.val.is_dir ])

IdleInfo == infoArg = <<>> /\ infoRet = None

IdleFs == now = None /\ last = None /\ written = <<>>

InitInfo ==
  /\ IdleList
  /\ IdleFs
  /\ IdleFolder
  /\ IdleDialog
  /\ tree \in InfoTrees
  /\ infoArg = <<>>
  /\ infoRet = None

GetFileInfo(p) ==
  /\ infoArg' = p
  /\ infoRet' = get_file_info(tree, p)
  /\ UNCHANGED <<listVars, tree, fsVars, folderVars, dialogVars>>

NextInfo == \E p \in InfoPaths : GetFileInfo(p)

SpecInfo == InitInfo /\ [][NextInfo]_vars

\* The final component of a path, stated on its pieces: the last piece that
\* is neither empty nor ".", unless there is none or it is "..".
FinalPiece(p) ==
  LET S == Split(p)
      I == { i \in 1..Len(S) : S[i] # <<>> /\ S[i] # <<".">> }
      k == CHOOSE i \in I : \A j \in I : j <= i
  IN IF I = {} \/ S[k] = <<".", ".">> THEN None ELSE Some(S[k])

\* C7 as amended: get_file_info fails exactly when the metadata lookup
\* fails (always for the empty path); when the lookup succeeds the path
\* field is the input, and the name is "unknown" for a path without a final
\* component and the final component otherwise.
C7_NameOrUnknown ==
  infoRet # None =>
    /\ infoRet.ok <=> (Resolve(tree, infoArg) # Fail)
    /\ infoArg = <<>> => ~infoRet.ok
    /\ infoRet.ok =>
         /\ infoRet.val.path = infoArg
         /\ infoRet.val.name =
              (IF FinalPiece(infoArg) = None THEN Unknown
               ELSE FinalPiece(infoArg).some)

\* get_file_info on the root path returned the name "unknown".
C7_Witness ==
  /\ infoArg = <<"/">>
  /\ infoRet # None /\ infoRet.ok
  /\ infoRet.val.name = Unknown
  /\ infoRet.val.is_dir

\* C7 as claimed: on every path without a final component (the empty path
\* included) the call succeeds with the name "unknown".
C7_Original ==
  (infoRet # None /\ FinalPiece(infoArg) = None) =>
     (infoRet.ok /\ infoRet.val.name = Unknown)

----------------------------------------------------------------------------
(* fs::write and fs::read_to_string                                        *)

\* The file that open(path, O_WRONLY | O_CREAT | O_TRUNC) opens, as
\* Some(location), or Fail: the parent must be an existing directory, the
\* last segment a name, and the path must not name a directory.
WriteTarget(t, path) ==
  IF path = <<>> \/ Segs(path) = <<>> THEN Fail
  ELSE LET segs == Segs(path)
           name == segs[Len(segs)]
           w    == Walk(t, StartOf(path), SubSeq(segs, 1, Len(segs) - 1))
       IN IF name \in {<<".">>, <<".", ".">>} \/ path[Len(path)] = "/"
            THEN Fail
          ELSE IF w = Fail THEN Fail
          ELSE IF w.some \notin DOMAIN t \/ t[w.some].kind # "dir" THEN Fail
          ELSE IF Append(w.some, name) \in DOMAIN t
                  /\ t[Append(w.some, name)].kind = "dir" THEN Fail
          ELSE Some(Append(w.some, name))

\* The function f with f[k] = v added or replaced.
Put(f, k, v) == (k :> v) @@ f

\* A faulty write: it appends to an existing file.
write_mutant(t, path, content) ==
  LET r == WriteTarget(t, path) IN
    IF r = Fail THEN [ret |-> Err("os error"), tree |-> t]
    ELSE [ ret  |-> Ok("unit"),
           tree |-> Put(t, r.some,
                        FileNode((IF r.some \in DOMAIN t
                                    THEN t[r.some].data ELSE "") \o content,
                                 TRUE)) ]

\* fs::write(path, content): creates the file or replaces all of its
\* content.  content is a String, so the bytes written are valid UTF-8.
write(t, path, content) ==
  LET r == WriteTarget(t, path) IN
    IF r = Fail THEN [ret |-> Err("os error"), tree |-> t]
    ELSE [ ret  |-> Ok("unit"),
           tree |-> Put(t, r.some, FileNode(content, TRUE)) ]

\* fs::read_to_string(path): fails on a missing path, a directory, and on
\* bytes that are not valid UTF-8.
read_to_string(t, path) ==
  LET r == Resolve(t, path) IN
    IF r = Fail THEN Err("os error")
    ELSE IF t[r.some].kind = "dir" THEN Err("os error")
    ELSE IF ~t[r.some].utf8 THEN Err("stream did not contain valid UTF-8")
    ELSE Ok(t[r.some].data)

\* map_err(|e| format!("<prefix>{}", e)) / map_err(|e| e.to_string())
map_err(r, prefix) == IF r.ok THEN r ELSE Err(prefix \o r.err)

\* file_manager.rs read_file, lines 105-108, and lib.rs read_file, 5-7.
read_file(module, t, path) ==
  IF module = "file_manager"
    THEN map_err(read_to_string(t, path), "Error reading file: ")
    ELSE map_err(read_to_string(t, path), "")

\* file_manager.rs write_file, lines 112-115, and lib.rs write_file, 10-12.
write_file(module, t, path, content) ==
  LET w == write(t, path, content) IN
    [ ret  |-> IF module = "file_manager"
                 THEN map_err(w.ret, "Error writing file: ")
                 ELSE map_err(w.ret, ""),
      tree |-> w.tree ]

----------------------------------------------------------------------------
(* create_new_file                                                         *)

Digit(n) == <<"0", "1", "2", "3", "4", "5", "6", "7", "8", "9">>[n + 1]

TwoDigits(n) == <<Digit((n \div 10) % 10), Digit(n % 10)>>

\* The local date, which the model keeps fixed.
Today == [year |-> 2026, month |-> 11, day |-> 5]

\* chrono's format("%Y%m%d_%H%M%S") of the local time t.
format(t) ==
  TwoDigits(Today.year \div 100) \o TwoDigits(Today.year % 100)
    \o TwoDigits(Today.month) \o TwoDigits(Today.day)
    \o <<"_">>
    \o TwoDigits(t.sec \div 3600) \o TwoDigits((t.sec \div 60) % 60)
    \o TwoDigits(t.sec % 60)

Template == "# New Document\n\nStart typing here..."

\* format!("document_{}.md", timestamp)
filename(t) ==
  <<"d", "o", "c", "u", "m", "e", "n", "t", "_">> \o format(t)
    \o <<".", "m", "d">>

\* A faulty create_new_file: the file is created empty.
create_new_file_mutant(t, folder_path, time) ==
  LET file_path == join(folder_path, filename(time))
      w == write(t, file_path, "")
  IN [ wrote |-> w.ret,
       ret   |-> IF w.ret.ok THEN Ok(to_string_lossy(file_path))
                 ELSE map_err(w.ret, "Error creating file: "),
       tree  |-> w.tree ]

\* create_new_file(folder_path), lines 119-129, called at local time `time`.
create_new_file(t, folder_path, time) ==
  LET file_path == join(folder_path, filename(time))
      w == write(t, file_path, Template)
  IN [ wrote |-> w.ret,
       ret   |-> IF w.ret.ok THEN Ok(to_string_lossy(file_path))
                 ELSE map_err(w.ret, "Error creating file: "),
       tree  |-> w.tree ]

----------------------------------------------------------------------------
(* The specification of the file commands                                  *)

\* How many seconds the clock may advance.
ClockSpan == 1

\* The local time at the start: 00:00:59.
FirstSecond == [sec |-> 59]

Modules == {"file_manager", "lib"}

Contents == {"", "ab"}

CreateFolders == { <<>>, <<"/", "w">>, <<"/", "w", "/">>, <<"/", "x">> }

DocPaths ==
  { join(<<"/", "w">>, filename([sec |-> s])) :
      s \in FirstSecond.sec..(FirstSecond.sec + ClockSpan) }

FilePaths == { <<"/", "x", "/", "n">>, <<"b">> } \cup DocPaths

\* /w is the working directory; /w/b holds bytes that are not UTF-8.
InitTree ==
  (<<>> :> DirNode) @@ (Cwd :> DirNode)
    @@ (<< <<"w">>, <<"b">> >> :> FileNode("<FF>", FALSE))

InitFs ==
  /\ IdleList
  /\ IdleInfo
  /\ IdleFolder
  /\ IdleDialog
  /\ tree = InitTree
  /\ now = FirstSecond
  /\ last = [op |-> "none"]
  /\ written = <<>>

\* The clock reaches the next second.  Commands that run with no Tick
\* between them run within the same second.
Tick ==
  /\ now.sec < FirstSecond.sec + ClockSpan
  /\ now' = [sec |-> now.sec + 1]
  /\ UNCHANGED <<listVars, infoVars, folderVars, dialogVars, tree, last,
                 written>>

WriteFile(m, p, c) ==
  LET w == write_file(m, tree, p, c) IN
    /\ tree' = w.tree
    /\ last' = [op |-> "write", module |-> m, path |-> p, content |-> c,
                ret |-> w.ret]
    /\ written' = IF w.ret.ok THEN Put(written, WriteTarget(tree, p).some, c)
                  ELSE written
    /\ UNCHANGED <<listVars, infoVars, folderVars, dialogVars, now>>

ReadFile(m, p) ==
  /\ last' = [op |-> "read", module |-> m, path |-> p,
              ret |-> read_file(m, tree, p)]
  /\ UNCHANGED <<listVars, infoVars, folderVars, dialogVars, tree, now,
                 written>>

CreateNewFile(f) ==
  LET c == create_new_file(tree, f, now) IN
    /\ tree' = c.tree
    /\ last' = [op |-> "create", folder |-> f, time |-> now,
                wrote |-> c.wrote, ret |-> c.ret]
    /\ written' =
         IF c.wrote.ok
           THEN Put(written,
                    WriteTarget(tree, join(f, filename(now))).some, Template)
           ELSE written
    /\ UNCHANGED <<listVars, infoVars, folderVars, dialogVars, now>>

NextFs ==
  \/ Tick
  \/ \E m \in Modules, p \in FilePaths, c \in Contents : WriteFile(m, p, c)
  \/ \E m \in Modules, p \in FilePaths : ReadFile(m, p)
  \/ \E f \in CreateFolders : CreateNewFile(f)

SpecFs == InitFs /\ [][NextFs]_vars

\* C3: a read_file (of either module) of a path to whose file a write has
\* succeeded returns Ok with exactly the content of the most recent such
\* write.
C3_RoundTrip ==
  last.op = "read" =>
    LET w == WriteTarget(tree, last.path) IN
      (w # Fail /\ w.some \in DOMAIN written) =>
         last.ret = Ok(written[w.some])

\* lib.rs read_file returned the content written over a file that held
\* other bytes before.
C3_Witness ==
  /\ last.op = "read"
  /\ last.module = "lib"
  /\ last.path = <<"b">>
  /\ last.ret = Ok("ab")

Digits == { Digit(n) : n \in 0..9 }

DigitVal(c) == CHOOSE n \in 0..9 : Digit(n) = c

Num2(s, i) == 10 * DigitVal(s[i]) + DigitVal(s[i + 1])

\* n matches document_\d{8}_\d{6}\.md and its digits are the local date and
\* the local time t.
IsDocNameAt(n, t) ==
  /\ Len(n) = 27
  /\ SubSeq(n, 1, 9) = <<"d", "o", "c", "u", "m", "e", "n", "t", "_">>
  /\ \A i \in (10..17) \cup (19..24) : n[i] \in Digits
  /\ n[18] = "_"
  /\ SubSeq(n, 25, 27) = <<".", "m", "d">>
  /\ 100 * Num2(n, 10) + Num2(n, 12) = Today.year
  /\ Num2(n, 14) = Today.month
  /\ Num2(n, 16) = Today.day
  /\ Num2(n, 21) < 60 /\ Num2(n, 23) < 60
  /\ 3600 * Num2(n, 19) + 60 * Num2(n, 21) + Num2(n, 23) = t.sec

\* What C6 says of every create_new_file, but for where the path lies.
C6_Rest ==
  /\ last.ret.ok <=> last.wrote.ok
  /\ last.ret.ok =>
       /\ FinalPiece(last.ret.val) # None
       /\ IsDocNameAt(FinalPiece(last.ret.val).some, last.time)
       /\ read_file("file_manager", tree, last.ret.val) = Ok(Template)

C10_Original ==
  [][ (last'.op = "create" /\ last'.ret.ok) =>
        \A loc \in DOMAIN tree : tree'[loc] = tree[loc] ]_vars

----------------------------------------------------------------------------
(* get_default_md_folder and set_default_md_folder                         *)

MaxCalls == 3
MaxFsChanges == 2

Threads == {1, 2}

\* Path::is_dir: the metadata lookup succeeds and finds a directory.
is_dir(t, path) ==
  LET md == metadata(t, path) IN md.ok /\ md.val.is_dir

\* A String is a buffer and a length; its value is the first len characters
\* of the buffer.
StrValue(s) ==
  SubSeq(s.ptr, 1, IF s.len < Len(s.ptr) THEN s.len ELSE Len(s.ptr))

Documents == <<"D", "o", "c", "u", "m", "e", "n", "t", "s">>

\* A faulty lock: it excludes nobody.
CanLockMutant(m) == TRUE

\* Mutex::lock returns once no thread holds the mutex m.
CanLock(m) == m = 0

\* A faulty get_default_md_folder: it ignores the stored String.
get_default_md_folder_mutant(folder, h) ==
  IF h = None THEN Err("Unable to find home directory")
  ELSE Ok(to_string_lossy(join(h.some, Documents)))

\* The body of get_default_md_folder, lines 25-32, on the locked String.
get_default_md_folder(folder, h) ==
  IF StrValue(folder) # <<>> THEN Ok(StrValue(folder))
  ELSE IF h = None THEN Err("Unable to find home directory")
  ELSE Ok(to_string_lossy(join(h.some, Documents)))

SetPaths ==
  { <<>>, <<"/", "w">>, <<"/", "d", "/", "e">>, <<"/", "b">>,
    <<"/", "h", "/", "D", "o", "c", "u", "m", "e", "n", "t", "s">> }

Homes ==
  { None, Some(<<"/", "h">>), Some(<<"/", "h", "/">>), Some(<<"/">>),
    Some(<<"/", BadByte1>>) }

\* The directories others may remove and make again.
Volatile == { << <<"d">>, <<"e">> >> }

FolderTree ==
  (<<>> :> DirNode) @@ (Cwd :> DirNode) @@ (<< <<"d">> >> :> DirNode)
    @@ (<< <<"d">>, <<"e">> >> :> DirNode)
    @@ (<< <<"b">> >> :> FileNode("x", TRUE))
    @@ (<< <<"h">> >> :> DirNode)
    @@ (<< <<"h">>, Documents >> :> DirNode)

InitFolder ==
  /\ IdleList
  /\ IdleInfo
  /\ IdleFs
  /\ IdleDialog
  /\ tree = FolderTree
  /\ default_md_folder = [ptr |-> <<>>, len |-> 0]
  /\ mutex = 0
  /\ home \in Homes
  /\ pc = [t \in Threads |-> "idle"]
  /\ call = [t \in Threads |-> [op |-> "none"]]
  /\ lastSet = None
  /\ storedEver = {}
  /\ calls = 0
  /\ fsChanges = 0

Others == <<listVars, infoVars, fsVars, dialogVars>>

\* get_default_md_folder, lines 23-33: the guard is held from line 24 to the
\* return, so the whole call is one step that waits for the mutex.
GetDefault(t) ==
  /\ pc[t] = "idle"
  /\ calls < MaxCalls
  /\ CanLock(mutex)
  /\ call' = [call EXCEPT ![t] =
                [op |-> "get", seen |-> lastSet,
                 ret |-> get_default_md_folder(default_md_folder, home)]]
  /\ calls' = calls + 1
  /\ UNCHANGED <<Others, tree, default_md_folder, mutex, home, pc, lastSet,
                 storedEver, fsChanges>>

\* A faulty set_default_md_folder: it goes on to store whatever is_dir says.
SetCheckMutant(t, p) ==
  /\ pc[t] = "idle"
  /\ calls < MaxCalls
  /\ calls' = calls + 1
  /\ pc' = [pc EXCEPT ![t] = "lock"]
  /\ call' = [call EXCEPT ![t] =
                [op |-> "set", arg |-> p, checked |-> is_dir(tree, p),
                 ret |-> None]]
  /\ UNCHANGED <<Others, tree, default_md_folder, mutex, home, lastSet,
                 storedEver, fsChanges>>

\* set_default_md_folder, line 38 and lines 42-44: the is_dir test, whose
\* value the call keeps in `checked`, and the error return when it fails.
SetCheck(t, p) ==
  /\ pc[t] = "idle"
  /\ calls < MaxCalls
  /\ calls' = calls + 1
  /\ IF is_dir(tree, p)
       THEN /\ pc' = [pc EXCEPT ![t] = "lock"]
            /\ call' = [call EXCEPT ![t] =
                          [op |-> "set", arg |-> p, checked |-> TRUE,
                           ret |-> None]]
       ELSE /\ pc' = pc
            /\ call' = [call EXCEPT ![t] =
                          [op |-> "set", arg |-> p, checked |-> FALSE,
                           ret |-> Err("Invalid folder path")]]
  /\ UNCHANGED <<Others, tree, default_md_folder, mutex, home, lastSet,
                 storedEver, fsChanges>>

\* Line 39: state.default_md_folder.lock().
SetLock(t) ==
  /\ pc[t] = "lock"
  /\ CanLock(mutex)
  /\ mutex' = t
  /\ pc' = [pc EXCEPT ![t] = "ptr"]
  /\ UNCHANGED <<Others, tree, default_md_folder, home, call, lastSet,
                 storedEver, calls, fsChanges>>

\* Line 40, *folder = folder_path, moves the String in more than one store:
\* first the buffer,
SetStorePtr(t) ==
  /\ pc[t] = "ptr"
  /\ default_md_folder' = [default_md_folder EXCEPT !.ptr = call[t].arg]
  /\ pc' = [pc EXCEPT ![t] = "len"]
  /\ UNCHANGED <<Others, tree, mutex, home, call, lastSet, storedEver, calls,
                 fsChanges>>

\* then the length; the guard is dropped and Ok(()) returned (line 41).
SetStoreLen(t) ==
  /\ pc[t] = "len"
  /\ default_md_folder' = [default_md_folder EXCEPT !.len = Len(call[t].arg)]
  /\ mutex' = IF mutex = t THEN 0 ELSE mutex
  /\ pc' = [pc EXCEPT ![t] = "idle"]
  /\ call' = [call EXCEPT ![t].ret = Ok("unit")]
  /\ lastSet' = Some(call[t].arg)
  /\ storedEver' = storedEver \cup {call[t].arg}
  /\ UNCHANGED <<Others, tree, home, calls, fsChanges>>

\* Another process removes a directory,
EnvRemoveDir(loc) ==
  /\ fsChanges < MaxFsChanges
  /\ loc \in DOMAIN tree
  /\ tree' = [l \in DOMAIN tree \ {loc} |-> tree[l]]
  /\ fsChanges' = fsChanges + 1
  /\ UNCHANGED <<Others, default_md_folder, mutex, home, pc, call, lastSet,
                 storedEver, calls>>

\* or makes it again.
EnvMakeDir(loc) ==
  /\ fsChanges < MaxFsChanges
  /\ loc \notin DOMAIN tree
  /\ tree' = Put(tree, loc, DirNode)
  /\ fsChanges' = fsChanges + 1
  /\ UNCHANGED <<Others, default_md_folder, mutex, home, pc, call, lastSet,
                 storedEver, calls>>

NextFolder ==
  \/ \E t \in Threads : GetDefault(t)
  \/ \E t \in Threads, p \in SetPaths : SetCheck(t, p)
  \/ \E t \in Threads : SetLock(t)
  \/ \E t \in Threads : SetStorePtr(t)
  \/ \E t \in Threads : SetStoreLen(t)
  \/ \E loc \in Volatile : EnvRemoveDir(loc)
  \/ \E loc \in Volatile : EnvMakeDir(loc)

SpecFolder == InitFolder /\ [][NextFolder]_vars

\* The platform default: <home>/Documents, <home> rendered as a string.
IsHomeDocuments(p) ==
  /\ home # None
  /\ components(p)
       = components(to_string_lossy(home.some) \o <<"/">> \o Documents)

\* C4: a get_default_md_folder that runs when no set has returned Ok yet
\* returns <home>/Documents, or fails when there is no home directory; one
\* that runs after a set has returned Ok returns exactly the path of the
\* most recent such set.
C4_GetDefault ==
  \A t \in Threads :
    call[t].op = "get" =>
      IF call[t].seen = None
        THEN IF home = None THEN ~call[t].ret.ok
             ELSE call[t].ret.ok /\ IsHomeDocuments(call[t].ret.val)
        ELSE call[t].ret = Ok(call[t].seen.some)

\* A get returned the path of the last successful set although two sets had
\* succeeded, with different paths.
C4_Witness ==
  \E t \in Threads :
    /\ call[t].op = "get"
    /\ call[t].ret = Ok(<<"/", "d", "/", "e">>)
    /\ storedEver = { <<"/", "w">>, <<"/", "d", "/", "e">> }

\* C5: a set_default_md_folder whose path is not a directory when the call
\* tests it returns Err at once and leaves the stored String as it was.
C5_InvalidRejected ==
  [][ \A t \in Threads :
        ( /\ pc[t] = "idle"
          /\ call'[t] # call[t]
          /\ call'[t].op = "set"
          /\ ~is_dir(tree, call'[t].arg) )
        => /\ call'[t].ret = Err("Invalid folder path")
           /\ pc'[t] = "idle"
           /\ default_md_folder' = default_md_folder ]_vars

\* A set with the path of a regular file failed while another folder was
\* stored, and that folder is still the stored value.
C5_Witness ==
  \E t \in Threads :
    /\ call[t].op = "set"
    /\ call[t].arg = <<"/", "b">>
    /\ call[t].ret = Err("Invalid folder path")
    /\ pc = [u \in Threads |-> "idle"]
    /\ StrValue(default_md_folder) = <<"/", "w">>

\* Every get that succeeded returned the platform default, nothing being
\* stored, or a path that one successful set stored in full.
NoMixture ==
  \A t \in Threads :
    (call[t].op = "get" /\ call[t].ret.ok) =>
       \/ call[t].seen = None /\ IsHomeDocuments(call[t].ret.val)
       \/ call[t].ret.val \in storedEver

\* The stored String changes only in the store of a set whose is_dir test
\* succeeded.
StoreOnlyChecked ==
  default_md_folder' # default_md_folder =>
    \E t \in Threads :
      /\ pc[t] \in {"ptr", "len"}
      /\ call[t].op = "set"
      /\ call[t].checked
      /\ default_md_folder' \in
           { [default_md_folder EXCEPT !.ptr = call[t].arg],
             [default_md_folder EXCEPT !.len = Len(call[t].arg)] }

\* C9 as amended: the stored folder is only ever replaced by a path that
\* was an existing directory when the same call tested it, and every get
\* returns the platform default or a value one set stored in full.
C9_Atomic == [][StoreOnlyChecked]_vars /\ []NoMixture

\* A set returned Ok for a path that was removed between its test and its
\* store, and a later get returned that path, which is no directory.
C9_Witness ==
  \E t, u \in Threads :
    /\ call[t].op = "set"
    /\ call[t].ret = Ok("unit")
    /\ ~is_dir(tree, call[t].arg)
    /\ call[u].op = "get"
    /\ call[u].ret = Ok(call[t].arg)

\* A step that stores into the String finds the path to be a directory.
StoreOnlyDir ==
  \A t \in Threads :
    (pc[t] \in {"ptr", "len"} /\ pc'[t] # pc[t]) =>
       is_dir(tree, call[t].arg)

\* C9 as claimed: the path is an existing directory at the moment it is
\* stored, and every get returns the platform default or a value one set
\* stored in full.
C9_Original == [][StoreOnlyDir]_vars /\ []NoMixture

----------------------------------------------------------------------------
(* open_file_dialog and open_folder_dialog                                 *)

MaxDialogs == 3

Commands == {"open_file_dialog", "open_folder_dialog"}

\* What the dialog passes to the callback, an Option<FilePath>: None when
\* the user cancels, else a FilePath, which is a path or a URL.
Cancelled == [kind |-> "none"]
PathOf(p) == [kind |-> "path", path |-> p]
UrlOf(u) == [kind |-> "url", url |-> u]

Selections ==
  { Cancelled,
    PathOf(<<"/", "w", "/", "a">>),
    PathOf(<<"/", "w", "/", BadByte1>>),
    UrlOf("content://media/7") }

\* FilePath::into_path: a path as it is; a URL that is no file URL is an
\* error.
into_path(fp) ==
  IF fp.kind = "path" THEN Ok(fp.path) ELSE Err("InvalidPathUrl")

\* A faulty conversion: a cancelled dialog is an error.
dialog_result_mutant(msg) ==
  IF msg.kind = "none" THEN Err("Dialog cancelled or error: ")
  ELSE IF into_path(msg).ok
    THEN Ok(Some(to_string_lossy(into_path(msg).val)))
    ELSE Ok(None)

\* Lines 71-73 and 98-100: the received Option<FilePath> as the command's
\* result.
dialog_result(msg) ==
  IF msg.kind = "none" THEN Ok(None)
  ELSE IF into_path(msg).ok
    THEN Ok(Some(to_string_lossy(into_path(msg).val)))
    ELSE Ok(None)

InitDialog ==
  /\ IdleList
  /\ IdleInfo
  /\ IdleFs
  /\ IdleFolder
  /\ tree = <<>>
  /\ dpc = [k \in Commands |-> "idle"]
  /\ chan = [k \in Commands |-> <<>>]
  /\ senders = [k \in Commands |-> 0]
  /\ cb = [k \in Commands |-> "none"]
  /\ sel = [k \in Commands |-> Cancelled]
  /\ dret = [k \in Commands |-> None]
  /\ returns = [k \in Commands |-> 0]
  /\ dialogs = 0

Rest == <<listVars, infoVars, fsVars, folderVars, tree>>

\* Lines 54-67 and 83-94: the channel is made, its Sender put in an Arc, a
\* clone of the Arc moved into the callback handed to the dialog; the
\* command then waits in rx.recv().
OpenDialog(k) ==
  /\ dpc[k] \in {"idle", "returned"}
  /\ dialogs < MaxDialogs
  /\ dialogs' = dialogs + 1
  /\ dpc' = [dpc EXCEPT ![k] = "waiting"]
  /\ chan' = [chan EXCEPT ![k] = <<>>]
  /\ senders' = [senders EXCEPT ![k] = 2]
  /\ cb' = [cb EXCEPT ![k] = "pending"]
  /\ dret' = [dret EXCEPT ![k] = None]
  /\ returns' = [returns EXCEPT ![k] = 0]
  /\ UNCHANGED <<Rest, sel>>

\* The dialog calls the callback (lines 64-66, 91-93): the result is sent
\* and the callback, with its clone of the Arc, is gone.
CallbackFire(k, s) ==
  /\ cb[k] = "pending"
  /\ cb' = [cb EXCEPT ![k] = "fired"]
  /\ sel' = [sel EXCEPT ![k] = s]
  /\ chan' = [chan EXCEPT ![k] = Append(chan[k], s)]
  /\ senders' = [senders EXCEPT ![k] = senders[k] - 1]
  /\ UNCHANGED <<Rest, dpc, dret, returns, dialogs>>

\* The dialog drops the callback without calling it.
CallbackDrop(k) ==
  /\ cb[k] = "pending"
  /\ cb' = [cb EXCEPT ![k] = "dropped"]
  /\ senders' = [senders EXCEPT ![k] = senders[k] - 1]
  /\ UNCHANGED <<Rest, dpc, chan, sel, dret, returns, dialogs>>

\* rx.recv() (lines 70, 97) returns a message once there is one, and an
\* error once there is none and no Sender is left; the command returns, and
\* its own handle on the Sender is dropped with it.
Recv(k) ==
  /\ dpc[k] = "waiting"
  /\ chan[k] # <<>> \/ senders[k] = 0
  /\ dret' = [dret EXCEPT ![k] =
                IF chan[k] # <<>> THEN dialog_result(Head(chan[k]))
                ELSE Err("Dialog cancelled or error: ")]
  /\ chan' = [chan EXCEPT ![k] = IF chan[k] # <<>> THEN Tail(chan[k]) ELSE <<>>]
  /\ senders' = [senders EXCEPT ![k] = 0]
  /\ dpc' = [dpc EXCEPT ![k] = "returned"]
  /\ returns' = [returns EXCEPT ![k] = returns[k] + 1]
  /\ UNCHANGED <<Rest, cb, sel, dialogs>>

NextDialog ==
  \/ \E k \in Commands : OpenDialog(k)
  \/ \E k \in Commands, s \in Selections : CallbackFire(k, s)
  \/ \E k \in Commands : CallbackDrop(k)
  \/ \E k \in Commands : Recv(k)

\* A command blocked in recv runs again once the channel has a message.
SpecDialog ==
  /\ InitDialog
  /\ [][NextDialog]_vars
  /\ \A k \in Commands : WF_vars(Recv(k))

\* A command has returned only after its callback fired, and once.
ReturnsOnceAfterCallback ==
  \A k \in Commands :
    /\ returns[k] <= 1
    /\ returns[k] = 1 <=> dpc[k] = "returned"
    /\ dpc[k] = "returned" => cb[k] = "fired"

\* A cancelled dialog gives Ok(None); a selected path gives Ok(Some(..)) with
\* the path as a string.
CancelAndPath ==
  \A k \in Commands :
    dpc[k] = "returned" =>
      /\ sel[k].kind = "none" => dret[k] = Ok(None)
      /\ sel[k].kind = "path" =>
           dret[k] = Ok(Some(to_string_lossy(sel[k].path)))

EventuallyReturns ==
  \A k \in Commands :
    (dpc[k] = "waiting" /\ cb[k] = "fired") ~> (dpc[k] = "returned")

=============================================================================
